---- MODULE Spec2Model ----
(***************************************************************************)
(* Novara Evidence Bundle: the builder (examples/bundle.py) and the        *)
(* Pocket Judge verifier (verifier/verify.py).                             *)
(*                                                                         *)
(* Text is modelled as a sequence of tokens.  A Python str that the code   *)
(* only inspects with `in`, startswith, lower and len is a sequence of     *)
(* non-empty pieces (<<"anchors/", "a1">> is "anchors/a1"); the content of *)
(* an archive entry is a sequence of newline, whitespace, garbage and      *)
(* JSON-document tokens, so that split("\n"), strip() and json.loads are   *)
(* computed on it the way the code computes them.                          *)
(***************************************************************************)
EXTENDS Integers, Sequences, FiniteSets, TLC

VARIABLES self, disk, argv, result, verdict, exit_code, opened, calls

vars == <<self, disk, argv, result, verdict, exit_code, opened, calls>>

(***************************************************************************)
(* Bounds of the model.                                                    *)
(***************************************************************************)
MaxEvents == 2

MaxAttachments == 2

MaxLines == 3

MaxRepeat == 6

(***************************************************************************)
(* Constants of verify.py.                                                 *)
(***************************************************************************)
REQUIRED_META_FIELDS == <<"bundle_id", "version", "timestamp", "system_info">>

REQUIRED_SYSTEM_INFO_FIELDS == <<"name", "version", "operator">>

REQUIRED_AAL_FIELDS == <<"timestamp", "actor", "action">>

VALID_EVB_VERSION == <<"0.1">>

VALID_AAL_VERSION == <<"1.0">>

MetaName == <<"meta.json">>

AalName == <<"aal.ndjson">>

(***************************************************************************)
(* JSON values, as json.loads returns them and json.dumps takes them.      *)
(***************************************************************************)
JStr(s) == [ty |-> "str", s |-> s]

JNum == [ty |-> "num"]

JNull == [ty |-> "null"]

JList(items) == [ty |-> "list", items |-> items]

JObj(f) == [ty |-> "obj", f |-> f]

\* Python's `key in v`: key lookup in a dict, substring test on a str,
\* element test on a list; a TypeError on a number, a bool or None.
InRaises(v) == v.ty \in {"num", "null"}

PyIn(key, v) ==
    CASE v.ty = "obj" -> key \in DOMAIN v.f
      [] v.ty = "str" -> \E i \in DOMAIN v.s : v.s[i] = key
      [] v.ty = "list" -> \E i \in DOMAIN v.items : v.items[i] = JStr(<<key>>)
      [] OTHER -> FALSE

\* Python's `v[key]` with a str key: only a dict can be subscripted by it.
SubscriptRaises(v) == v.ty # "obj"

\* isinstance(ts, str) and "T" in ts
IsoLike(ts) == ts.ty = "str" /\ \E i \in DOMAIN ts.s : ts.s[i] = "T"

(***************************************************************************)
(* Entry content: tokens, str.split("\n"), str.strip(), json.loads,        *)
(* json.dumps.                                                             *)
(***************************************************************************)
NL == [c |-> "nl"]

WS == [c |-> "ws"]

Garbage == [c |-> "garbage"]

\* json.dumps(v): one JSON document; the escaping of json.dumps keeps it free
\* of raw newlines whatever strings v holds
dumps(v) == [c |-> "json", v |-> v]

RECURSIVE split(_)
split(raw) ==
    IF \A i \in DOMAIN raw : raw[i] # NL
    THEN <<raw>>
    ELSE LET k == CHOOSE i \in DOMAIN raw :
                      raw[i] = NL /\ \A j \in 1..(i - 1) : raw[j] # NL
         IN  <<SubSeq(raw, 1, k - 1)>> \o split(SubSeq(raw, k + 1, Len(raw)))

IsSpace(tok) == tok.c \in {"nl", "ws"}

NotSpace(tok) == ~IsSpace(tok)

\* a blank test that only drops the empty lines, not the whitespace-only ones
strip_only_empty(line) == line # <<>>

\* truthiness of line.strip()
strip(line) == \E i \in DOMAIN line : NotSpace(line[i])

\* json.loads raises JSONDecodeError unless the text is exactly one document
\* with optional surrounding whitespace
loadsRaises(text) ==
    LET core == SelectSeq(text, NotSpace)
    IN  ~(Len(core) = 1 /\ core[1].c = "json")

loads(text) == SelectSeq(text, NotSpace)[1].v

(***************************************************************************)
(* The archive file and zipfile.ZipFile.                                   *)
(***************************************************************************)
NoFile == [exists |-> FALSE, zip |-> FALSE, entries |-> <<>>, digest |-> <<>>]

\* an entry's bytes: utf8 |-> FALSE when .decode("utf-8") raises
Bytes(text) == [utf8 |-> TRUE, text |-> text]

BadBytes == [utf8 |-> FALSE, text |-> <<>>]

namelist(z) == [i \in DOMAIN z.entries |-> z.entries[i].name]

InNamelist(name, z) == \E i \in DOMAIN z.entries : z.entries[i].name = name

\* z.read(name): the last entry written under that name
read(z, name) ==
    LET k == CHOOSE i \in DOMAIN z.entries :
                 /\ z.entries[i].name = name
                 /\ \A j \in DOMAIN z.entries :
                        z.entries[j].name = name => j <= i
    IN  z.entries[k].data

\* hashlib.sha256 over the file's bytes: the file carries its digest
sha256(file) == file.digest

(***************************************************************************)
(* CheckResult and VerificationResult.                                     *)
(***************************************************************************)
CheckResult(score) == [score |-> score, warnings |-> <<>>, errors |-> <<>>]

\* add_warning that always takes its default penalty of 1
add_warning_default_penalty(r, msg, penalty) ==
    [r EXCEPT !.warnings = Append(@, msg), !.score = @ - 1]

add_warning(r, msg, penalty) ==
    [r EXCEPT !.warnings = Append(@, msg), !.score = @ - penalty]

\* add_error that files the message under the warnings
add_error_as_warning(r, msg, penalty) ==
    [r EXCEPT !.warnings = Append(@, msg), !.score = @ - penalty]

add_error(r, msg, penalty) ==
    [r EXCEPT !.errors = Append(@, msg), !.score = @ - penalty]

Msg(text, line) == [text |-> text, line |-> line]

\* what a check function does: return a CheckResult, or raise
Return(r) == [raised |-> FALSE, value |-> r]

Raise == [raised |-> TRUE, value |-> CheckResult(0)]

Max(a, b) == IF a >= b THEN a ELSE b

\* hash_check is <<>> for None and <<r>> for a CheckResult r
total_score(res) ==
    LET base == res.meta.score + res.aal.score + res.optional.score
        full == IF res.hash_check # <<>>
                THEN base + res.hash_check[1].score
                ELSE base
    IN  Max(0, full)

all_errors(res) ==
    res.meta.errors \o res.aal.errors \o res.optional.errors
        \o (IF res.hash_check # <<>> THEN res.hash_check[1].errors ELSE <<>>)

\* is_valid without the check of the errors
is_valid_noerrors(res) == total_score(res) >= 7

is_valid(res) == total_score(res) >= 7 /\ all_errors(res) = <<>>

(***************************************************************************)
(* verify_meta                                                             *)
(***************************************************************************)
Missing(fields, v) == SelectSeq(fields, LAMBDA f : ~PyIn(f, v))

\* lines 139-163, reached with meta a dict
verify_meta_fields(meta, r1) ==
    LET r2 == IF "version" \in DOMAIN meta.f
                   /\ meta.f["version"] # JStr(VALID_EVB_VERSION)
              THEN add_warning(r1, Msg("version mismatch", 0), 1)
              ELSE r1
        r3 == IF "timestamp" \in DOMAIN meta.f
                   /\ ~IsoLike(meta.f["timestamp"])
              THEN add_warning(r2, Msg("timestamp should be ISO 8601", 0), 1)
              ELSE r2
        si == meta.f["system_info"]
        r4 == IF "system_info" \notin DOMAIN meta.f
              THEN r3
              ELSE IF si.ty # "obj"
              THEN add_warning(r3, Msg("system_info should be an object", 0), 1)
              ELSE IF Missing(REQUIRED_SYSTEM_INFO_FIELDS, si) # <<>>
              THEN add_warning(r3, Msg("system_info missing fields", 0), 1)
              ELSE r3
    IN  Return(r4)

verify_meta(z) ==
    LET r0 == CheckResult(4)
        data == read(z, MetaName)
        meta == loads(data.text)
        r1 == IF Missing(REQUIRED_META_FIELDS, meta) # <<>>
              THEN add_error(r0, Msg("meta.json missing required fields", 0), 4)
              ELSE r0
    IN  IF ~InNamelist(MetaName, z)
        THEN Return(add_error(r0, Msg("meta.json missing", 0), 4))
        ELSE IF ~data.utf8
        THEN Return(add_error(r0, Msg("meta.json read error", 0), 4))
        ELSE IF loadsRaises(data.text)
        THEN Return(add_error(r0, Msg("meta.json invalid JSON", 0), 4))
        ELSE IF InRaises(meta)
        THEN Raise
        ELSE IF meta.ty # "obj"
        THEN \* a str or a list: meta["version"] etc. raise when the `in` holds
             IF \E k \in {"version", "timestamp", "system_info"} : PyIn(k, meta)
             THEN Raise
             ELSE Return(r1)
        ELSE verify_meta_fields(meta, r1)

(***************************************************************************)
(* verify_aal                                                              *)
(***************************************************************************)
\* one iteration of the loop over the non-blank lines; st carries the
\* CheckResult, error_count, warning_count and whether the body raised
verify_aal_line(st, line, i) ==
    LET entry == loads(line)
        wc1 == IF Missing(REQUIRED_AAL_FIELDS, entry) # <<>>
               THEN st.warning_count + 1 ELSE st.warning_count
        r1 == IF wc1 > st.warning_count /\ wc1 <= 5
              THEN add_warning(st.r, Msg("AAL line: missing fields", i), 0)
              ELSE st.r
        badver == PyIn("aal_version", entry)
                      /\ entry.f["aal_version"] # JStr(VALID_AAL_VERSION)
        wc2 == IF badver THEN wc1 + 1 ELSE wc1
        r2 == IF badver /\ wc2 <= 5
              THEN add_warning(r1, Msg("AAL line: aal_version mismatch", i), 0)
              ELSE r1
        badts == PyIn("timestamp", entry) /\ ~IsoLike(entry.f["timestamp"])
        wc3 == IF badts THEN wc2 + 1 ELSE wc2
        r3 == IF badts /\ wc3 <= 5
              THEN add_warning(r2, Msg("AAL line: timestamp not ISO 8601-like", i), 0)
              ELSE r2
    IN  IF loadsRaises(line)
        THEN [st EXCEPT !.error_count = @ + 1,
                        !.r = IF st.error_count + 1 <= 3
                              THEN add_error(@, Msg("AAL line: invalid JSON", i), 1)
                              ELSE @]
        ELSE IF InRaises(entry)
        THEN [st EXCEPT !.raised = TRUE]
        ELSE IF entry.ty # "obj"
                  /\ (PyIn("aal_version", entry) \/ PyIn("timestamp", entry))
        THEN [st EXCEPT !.raised = TRUE]
        ELSE [st EXCEPT !.r = r3, !.warning_count = wc3]

RECURSIVE verify_aal_loop(_, _, _)
verify_aal_loop(st, lines, i) ==
    IF i > Len(lines) \/ st.raised
    THEN st
    ELSE verify_aal_loop(verify_aal_line(st, lines[i], i), lines, i + 1)

\* lines 237-249: the two summary messages after the loop
verify_aal_tail(st) ==
    LET r1 == IF st.error_count > 3
              THEN add_error(st.r, Msg("...and more JSON errors in AAL", 0), 1)
              ELSE st.r
        r2 == IF st.warning_count > 5
              THEN add_warning(r1, Msg("...and more AAL warnings", 0), 0)
              ELSE r1
    IN  r2

verify_aal(z) ==
    LET r0 == CheckResult(4)
        data == read(z, AalName)
        lines == SelectSeq(split(data.text), strip)
        st == verify_aal_loop([r |-> r0, error_count |-> 0,
                               warning_count |-> 0, raised |-> FALSE],
                              lines, 1)
    IN  IF ~InNamelist(AalName, z)
        THEN Return(add_error(r0, Msg("aal.ndjson missing", 0), 4))
        ELSE IF ~data.utf8
        THEN Return(add_error(r0, Msg("aal.ndjson read error", 0), 4))
        ELSE IF lines = <<>>
        THEN Return(add_warning(r0, Msg("aal.ndjson is empty", 0), 2))
        ELSE IF st.raised
        THEN Raise
        ELSE Return(verify_aal_tail(st))

(***************************************************************************)
(* verify_optional                                                         *)
(***************************************************************************)
\* str.lower() on the pieces of a name
lower(tok) ==
    CASE tok = "SIGNATURE" -> "signature"
      [] tok = "CTK" -> "ctk"
      [] OTHER -> tok

\* name.startswith("anchors/") and len(name) > len("anchors/")
IsAnchor(name) == Len(name) > 1 /\ name[1] = "anchors/"

\* "signature" in name.lower() or "ctk" in name.lower()
IsSignature(name) ==
    \E i \in DOMAIN name : lower(name[i]) \in {"signature", "ctk"}

verify_optional(z) ==
    LET names == namelist(z)
        r0 == CheckResult(2)
        r1 == IF ~\E i \in DOMAIN names : IsAnchor(names[i])
              THEN add_warning(r0, Msg("No anchors/ found", 0), 1)
              ELSE r0
        r2 == IF ~\E i \in DOMAIN names : IsSignature(names[i])
              THEN add_warning(r1, Msg("No cryptographic signature", 0), 1)
              ELSE r1
    IN  Return(r2)

(***************************************************************************)
(* verify_bundle_hash: the value is <<>> (None) or <<CheckResult>>         *)
(***************************************************************************)
verify_bundle_hash(z, bundle_path) ==
    LET data == read(z, MetaName)
        meta == loads(data.text)
        r0 == CheckResult(2)
        expected_hash == meta.f["bundle_sha256"]
        actual_hash == JStr(sha256(bundle_path))
    IN  IF ~InNamelist(MetaName, z) \/ ~data.utf8 \/ loadsRaises(data.text)
        THEN Return(<<>>)
        ELSE IF InRaises(meta)
        THEN Raise
        ELSE IF ~PyIn("bundle_sha256", meta)
        THEN Return(<<>>)
        ELSE IF SubscriptRaises(meta)
        THEN Raise
        ELSE IF actual_hash # expected_hash
        THEN Return(<<add_error(r0, Msg("bundle_sha256 mismatch", 0), 4)>>)
        ELSE Return(<<r0>>)

(***************************************************************************)
(* verify_bundle: the VerificationResult, and the check functions it ran   *)
(***************************************************************************)
VerificationResult(meta, aal, optional, hash_check) ==
    [meta |-> meta, aal |-> aal, optional |-> optional,
     hash_check |-> hash_check]

\* the outcome of the two except branches
Collapsed(msg) ==
    VerificationResult(add_error(CheckResult(0), Msg(msg, 0), 4),
                       CheckResult(0), CheckResult(0), <<>>)

\* the record of one call of a check function: what it returned, or that it
\* raised
Call(fn, ret) == [fn |-> fn, raised |-> ret.raised, value |-> ret.value]

verify_bundle(path) ==
    LET meta == verify_meta(path)
        aal == verify_aal(path)
        optional == verify_optional(path)
        hash_check == verify_bundle_hash(path, path)
        c1 == <<Call("verify_meta", meta)>>
        c2 == Append(c1, Call("verify_aal", aal))
        c4 == c2 \o <<Call("verify_optional", optional),
                      Call("verify_bundle_hash", hash_check)>>
    IN  IF ~path.zip
        THEN [value |-> Collapsed("Not a valid ZIP file"), calls |-> <<>>]
        ELSE IF meta.raised
        THEN [value |-> Collapsed("Unexpected error"), calls |-> c1]
        ELSE IF aal.raised
        THEN [value |-> Collapsed("Unexpected error"), calls |-> c2]
        ELSE IF hash_check.raised
        THEN [value |-> Collapsed("Unexpected error"), calls |-> c4]
        ELSE [value |-> VerificationResult(meta.value, aal.value,
                                           optional.value, hash_check.value),
              calls |-> c4]

\* the verdict print_result prints and main turns into the exit code
print_result(res) ==
    IF is_valid(res) THEN "L1-PASS"
    ELSE IF total_score(res) >= 4 THEN "L1-PARTIAL"
    ELSE "L1-FAIL"

\* the exit code main derives from the result
sys_exit(res) ==
    IF is_valid(res) THEN 0
    ELSE IF total_score(res) >= 4 THEN 1
    ELSE 2

(***************************************************************************)
(* The builder: examples/bundle.py                                         *)
(***************************************************************************)
\* the values iso_now() can return: second precision, "T" separator, "Z"
Clock == {<<"2025-11-19", "T", "12:00:00Z">>}

\* Optional[...] arguments and fields: <<>> is None, <<v>> is the value v
None == <<>>

Some(v) == <<v>>

EmptyDict == [k \in {} |-> JNull]

\* a dict entry that is only set when the optional value is not None
OptionalKey(key, opt) == IF opt # None THEN key :> opt[1] ELSE EmptyDict

\* the dataclass constructor: it stores its arguments and validates nothing
EvidenceBundle(bundle_id, system_name, system_version, operator, version, incident_summary, now) ==
    [bundle_id |-> bundle_id, system_name |-> system_name,
     system_version |-> system_version, operator |-> operator,
     version |-> version, incident_summary |-> incident_summary,
     tags |-> None, disclaimer |-> None,
     _created_at |-> now, _events |-> <<>>, _attachments |-> <<>>]

\* _build_meta that writes the creation time under "created_at"
_build_meta_created_at(b) ==
    JObj(("bundle_id" :> JStr(b.bundle_id))
         @@ ("version" :> JStr(b.version))
         @@ ("created_at" :> JStr(b._created_at))
         @@ ("system_info" :> JObj(("name" :> JStr(b.system_name))
                                   @@ ("version" :> JStr(b.system_version))
                                   @@ ("operator" :> JStr(b.operator)))))

_build_meta(b) ==
    JObj(("bundle_id" :> JStr(b.bundle_id))
         @@ ("version" :> JStr(b.version))
         @@ ("timestamp" :> JStr(b._created_at))
         @@ ("system_info" :> JObj(("name" :> JStr(b.system_name))
                                   @@ ("version" :> JStr(b.system_version))
                                   @@ ("operator" :> JStr(b.operator))))
         @@ OptionalKey("incident_summary", b.incident_summary)
         @@ OptionalKey("tags", b.tags)
         @@ OptionalKey("disclaimer", b.disclaimer))

\* the event dict add_event builds
Event(actor, action, timestamp, input, output, metadata) ==
    JObj(("timestamp" :> JStr(timestamp))
         @@ ("actor" :> JStr(actor))
         @@ ("action" :> JStr(action))
         @@ OptionalKey("input", input)
         @@ OptionalKey("output", output)
         @@ OptionalKey("metadata", metadata))

\* self._attachments[path] = content on an insertion-ordered dict: a key that
\* is already there keeps its place
DictSet(d, path, content) ==
    IF \E i \in DOMAIN d : d[i].path = path
    THEN [i \in DOMAIN d |->
             IF d[i].path = path THEN [path |-> path, content |-> content]
             ELSE d[i]]
    ELSE Append(d, [path |-> path, content |-> content])

\* "\n".join(...) without the newline after the last event
aal_ndjson_joined(events) ==
    LET full == [i \in 1..(2 * Len(events)) |->
                    IF i % 2 = 1 THEN dumps(events[(i + 1) \div 2]) ELSE NL]
    IN  SubSeq(full, 1, Len(full) - 1)

\* the NDJSON string write_zip builds: json.dumps(event) + "\n" per event
RECURSIVE aal_ndjson(_)
aal_ndjson(events) ==
    IF events = <<>> THEN <<>>
    ELSE <<dumps(Head(events)), NL>> \o aal_ndjson(Tail(events))

ZipEntry(name, data) == [name |-> name, data |-> data]

\* the entries write_zip hands to zf.writestr, in order
ZipEntries(b) ==
    <<ZipEntry(MetaName, Bytes(<<dumps(_build_meta(b))>>)),
      ZipEntry(AalName, Bytes(aal_ndjson(b._events)))>>
    \o [i \in DOMAIN b._attachments |->
           ZipEntry(b._attachments[i].path,
                    Bytes(b._attachments[i].content))]

ZipFile(entries, digest) ==
    [exists |-> TRUE, zip |-> TRUE, entries |-> entries, digest |-> digest]

(***************************************************************************)
(* Inputs                                                                  *)
(***************************************************************************)
Digests == {<<"h1">>, <<"h2">>}

\* the digest of the bytes write_zip writes: a value no meta.json declares,
\* as the bytes hashed contain the meta.json
WrittenDigest == <<"h0">>

\* the add_event calls the caller makes: with the default timestamp, and
\* with a caller-supplied one that is not ISO-like and with metadata
EventArgs ==
    {[actor |-> <<"user">>, action |-> <<"send_message">>,
      timestamp |-> None, metadata |-> None],
     [actor |-> <<"chat-model">>, action |-> <<"generate_response">>,
      timestamp |-> Some(<<"yesterday">>), metadata |-> Some(JObj(EmptyDict))]}

Versions == {<<"0.1">>, <<"0.2">>}

BundleIds == {<<"evb-1">>}

\* the constructor calls the caller makes: every identity field given, under
\* each version; an empty bundle_id; and every identity field empty
ConstructorArgs ==
    {[bundle_id |-> b, system_name |-> <<"Demo">>,
      system_version |-> <<"0.0.1">>, operator |-> <<"Lab">>,
      version |-> v] : b \in BundleIds, v \in Versions}
    \cup {[bundle_id |-> <<>>, system_name |-> <<"Demo">>,
            system_version |-> <<"0.0.1">>, operator |-> <<"Lab">>,
            version |-> VALID_EVB_VERSION],
           [bundle_id |-> <<>>, system_name |-> <<>>,
            system_version |-> <<>>, operator |-> <<>>,
            version |-> VALID_EVB_VERSION]}

AttachmentPaths ==
    {<<"attachments/", "prompt.txt">>, MetaName, AalName}

AttachmentContents == {<<Garbage>>, <<Garbage, NL>>}

(***************************************************************************)
(* State and actions                                                       *)
(***************************************************************************)
\* argv, result, verdict, exit_code, opened and calls describe the run of main
\* that has just ended: its arguments, the VerificationResult, the verdict
\* line it printed, its exit code, whether it tried to open the archive, and
\* the check functions it called.  The verifier keeps nothing between
\* invocations, so every other step leaves them at their not-run values.
NotRun ==
    /\ argv = <<>>
    /\ result = None
    /\ verdict = None
    /\ exit_code = None
    /\ opened = FALSE
    /\ calls = <<>>

Forget ==
    /\ argv' = <<>>
    /\ result' = None
    /\ verdict' = None
    /\ exit_code' = None
    /\ opened' = FALSE
    /\ calls' = <<>>

Init ==
    /\ \E a \in ConstructorArgs, now \in Clock :
           self = EvidenceBundle(a.bundle_id, a.system_name, a.system_version,
                                 a.operator, a.version, None, now)
    /\ disk = NoFile
    /\ NotRun

add_event(actor, action, timestamp, input, output, metadata) ==
    /\ Len(self._events) < MaxEvents
    /\ \E now \in Clock :
           LET ts == IF timestamp = None THEN now ELSE timestamp[1]
           IN  self' = [self EXCEPT !._events =
                           Append(@, Event(actor, action, ts,
                                           input, output, metadata))]
    /\ UNCHANGED disk
    /\ Forget

add_text_attachment(path, content) ==
    /\ \/ Len(self._attachments) < MaxAttachments
       \/ \E i \in DOMAIN self._attachments : self._attachments[i].path = path
    /\ self' = [self EXCEPT !._attachments = DictSet(@, path, content)]
    /\ UNCHANGED disk
    /\ Forget

write_zip ==
    /\ disk' = ZipFile(ZipEntries(self), WrittenDigest)
    /\ UNCHANGED self
    /\ Forget

\* one run of the command line on sys.argv
main(args) ==
    /\ UNCHANGED <<self, disk>>
    /\ argv' = args
    /\ IF Len(args) < 2 \/ ~disk.exists
       THEN /\ exit_code' = Some(1)
            /\ result' = None
            /\ verdict' = None
            /\ opened' = FALSE
            /\ calls' = <<>>
       ELSE LET vb == verify_bundle(disk)
            IN  /\ result' = Some(vb.value)
                /\ verdict' = Some(print_result(vb.value))
                /\ exit_code' = Some(sys_exit(vb.value))
                /\ opened' = TRUE
                /\ calls' = vb.calls

Argvs == {<<"verify.py">>, <<"verify.py", "bundle.zip">>}

Next ==
    \/ \E a \in EventArgs :
           add_event(a.actor, a.action, a.timestamp, None, None, a.metadata)
    \/ \E path \in AttachmentPaths, content \in AttachmentContents :
           add_text_attachment(path, content)
    \/ write_zip
    \/ \E args \in Argvs : main(args)

Spec == Init /\ [][Next]_vars

(***************************************************************************)
(* The verifier on arbitrary files: the archives other producers write     *)
(***************************************************************************)
IsoTime == <<"2025-11-19", "T", "12:00:00Z">>

FullSystemInfo ==
    JObj(("name" :> JStr(<<"N">>)) @@ ("version" :> JStr(<<"v">>))
         @@ ("operator" :> JStr(<<"Op">>)))

\* a meta.json object: each field absent (None) or present with a value
MetaFieldChoices ==
    [bundle_id : {None, Some(JStr(<<"b1">>))},
     version : {None, Some(JStr(<<"0.1">>)), Some(JStr(<<"0.2">>))},
     timestamp : {None, Some(JStr(IsoTime)), Some(JStr(<<"yesterday">>)),
                  Some(JNum)},
     system_info : {None, Some(FullSystemInfo),
                    Some(JObj("name" :> JStr(<<"N">>))), Some(JNum)},
     bundle_sha256 : {None} \cup {Some(JStr(d)) : d \in Digests}]

MetaKeys ==
    {"bundle_id", "version", "timestamp", "system_info", "bundle_sha256"}

MetaObject(c) == JObj([k \in {j \in MetaKeys : c[j] # None} |-> c[k][1]])

GoodMeta ==
    MetaObject([bundle_id |-> Some(JStr(<<"b1">>)),
                version |-> Some(JStr(<<"0.1">>)),
                timestamp |-> Some(JStr(IsoTime)),
                system_info |-> Some(FullSystemInfo),
                bundle_sha256 |-> None])

HashedMeta(d) == JObj(GoodMeta.f @@ ("bundle_sha256" :> JStr(d)))

\* the bytes of a meta.json entry
MetaDatas ==
    {BadBytes, Bytes(<<>>), Bytes(<<Garbage>>),
     Bytes(<<dumps(JNum)>>), Bytes(<<dumps(JNull)>>),
     Bytes(<<dumps(JStr(<<"abc">>))>>), Bytes(<<dumps(JStr(<<"version">>))>>),
     Bytes(<<dumps(JList(<<>>))>>),
     Bytes(<<dumps(JList(<<JStr(<<"bundle_sha256">>)>>))>>)}
    \cup {Bytes(<<WS, dumps(MetaObject(c)), NL>>) : c \in MetaFieldChoices}

GoodEntry ==
    JObj(("timestamp" :> JStr(IsoTime)) @@ ("actor" :> JStr(<<"user">>))
         @@ ("action" :> JStr(<<"send_message">>))
         @@ ("aal_version" :> JStr(<<"1.0">>)))

\* the lines of an aal.ndjson: blank, not JSON, JSON that is not an object,
\* and objects with and without the required fields
AalLines ==
    {<<WS>>, <<Garbage>>, <<dumps(JNum)>>, <<dumps(JStr(<<"x">>))>>,
     <<dumps(GoodEntry)>>,
     <<dumps(JObj(("timestamp" :> JStr(IsoTime))
                  @@ ("action" :> JStr(<<"send_message">>))))>>,
     <<dumps(JObj(("timestamp" :> JNum)
                  @@ ("aal_version" :> JStr(<<"0.9">>))))>>}

RECURSIVE JoinLines(_)
JoinLines(lines) ==
    IF lines = <<>> THEN <<>>
    ELSE Head(lines) \o <<NL>> \o JoinLines(Tail(lines))

AalLineSeqs ==
    UNION {[1..n -> AalLines] : n \in 0..MaxLines}
    \cup {[i \in 1..n |-> l] : n \in 1..MaxRepeat, l \in AalLines}

AalDatas == {BadBytes} \cup {Bytes(JoinLines(ls)) : ls \in AalLineSeqs}

GoodAal == Bytes(<<dumps(GoodEntry), NL>>)

\* further entries: anchors, signature markers, attachments
ExtraEntries ==
    {<<>>,
     <<ZipEntry(<<"anchors/">>, Bytes(<<>>))>>,
     <<ZipEntry(<<"anchors/", "a1">>, Bytes(<<Garbage>>))>>,
     <<ZipEntry(<<"sig/", "SIGNATURE", ".txt">>, Bytes(<<Garbage>>))>>,
     <<ZipEntry(<<"anchors/", "a1">>, Bytes(<<Garbage>>)),
       ZipEntry(<<"ctk">>, Bytes(<<Garbage>>))>>}

GoodMetaData == Bytes(<<dumps(GoodMeta)>>)

\* archives in which meta.json takes every shape
FilesMeta ==
    {ZipFile(<<ZipEntry(MetaName, md)>> \o a \o x, <<"h1">>) :
        md \in MetaDatas,
        a \in {<<>>, <<ZipEntry(AalName, GoodAal)>>,
               <<ZipEntry(AalName, Bytes(<<dumps(JNum), NL>>))>>},
        x \in {<<>>, <<ZipEntry(<<"anchors/", "a1">>, Bytes(<<Garbage>>)),
                       ZipEntry(<<"ctk">>, Bytes(<<Garbage>>))>>}}

\* archives in which aal.ndjson takes every shape
FilesAal ==
    {ZipFile(<<ZipEntry(MetaName, md), ZipEntry(AalName, ad)>> \o x, d) :
        md \in {GoodMetaData, Bytes(<<dumps(HashedMeta(<<"h1">>))>>)},
        ad \in AalDatas,
        x \in {<<>>, <<ZipEntry(<<"anchors/", "a1">>, Bytes(<<Garbage>>)),
                       ZipEntry(<<"ctk">>, Bytes(<<Garbage>>))>>},
        d \in Digests}

\* archives in which the other entries vary, and one with two meta.json
FilesExtra ==
    {ZipFile(m \o a \o x, <<"h1">>) :
        m \in {<<>>, <<ZipEntry(MetaName, GoodMetaData)>>},
        a \in {<<>>, <<ZipEntry(AalName, GoodAal)>>},
        x \in ExtraEntries}
    \cup {ZipFile(<<ZipEntry(MetaName, GoodMetaData),
                    ZipEntry(AalName, GoodAal),
                    ZipEntry(MetaName, Bytes(<<Garbage>>))>>, <<"h1">>)}

\* the files the command line is given: no file, a file that is no ZIP, and
\* archives
Files ==
    {NoFile,
     [exists |-> TRUE, zip |-> FALSE, entries |-> <<>>, digest |-> <<"h1">>]}
    \cup FilesMeta \cup FilesAal \cup FilesExtra

Init_verify ==
    /\ \E now \in Clock :
           self = EvidenceBundle(<<"evb-1">>, <<"Demo">>, <<"0.0.1">>,
                                 <<"Lab">>, <<"0.1">>, None, now)
    /\ disk \in Files
    /\ NotRun

Next_verify == \E args \in Argvs : main(args)

SpecVerify == Init_verify /\ [][Next_verify]_vars

(***************************************************************************)
(* Properties                                                              *)
(***************************************************************************)
\* the components present in a VerificationResult
Components(res) ==
    <<res.meta, res.aal, res.optional>> \o res.hash_check

RECURSIVE SumScores(_)
SumScores(cs) ==
    IF cs = <<>> THEN 0 ELSE Head(cs).score + SumScores(Tail(cs))

\* S: the sum of the present component scores, floored at zero
AggregateScore(res) ==
    IF SumScores(Components(res)) < 0 THEN 0 ELSE SumScores(Components(res))

\* E: some component recorded an error
SomeError(res) ==
    \E i \in DOMAIN Components(res) : Components(res)[i].errors # <<>>

\* C1: for every outcome of verify_bundle the printed verdict is PASS exactly
\* when S >= 7 and no component has an error, PARTIAL exactly when 4 <= S < 7
\* or S >= 7 with an error, FAIL exactly when S < 4; exactly one of the three
\* holds, and the exit code is 0 for PASS, 1 for PARTIAL and 2 for FAIL.
Thm_C1_VerdictDerivation ==
    result # None =>
        LET S == AggregateScore(result[1])
            E == SomeError(result[1])
        IN  /\ verdict \in {Some("L1-PASS"), Some("L1-PARTIAL"), Some("L1-FAIL")}
            /\ (verdict = Some("L1-PASS")) <=> (S >= 7 /\ ~E)
            /\ (verdict = Some("L1-PARTIAL"))
                   <=> ((4 <= S /\ S < 7) \/ (S >= 7 /\ E))
            /\ (verdict = Some("L1-FAIL")) <=> (S < 4)
            /\ (verdict = Some("L1-PASS")) <=> (exit_code = Some(0))
            /\ (verdict = Some("L1-PARTIAL")) <=> (exit_code = Some(1))
            /\ (verdict = Some("L1-FAIL")) <=> (exit_code = Some(2))

\* an outcome with S >= 7 that an error keeps from PASS
Witness_C1_ErrorPreventsPass ==
    /\ result # None
    /\ AggregateScore(result[1]) >= 7
    /\ SomeError(result[1])
    /\ verdict = Some("L1-PARTIAL")
    /\ exit_code = Some(1)

\* C3: in every outcome of verify_bundle each component score (meta, aal,
\* optional, and hash when present) is >= 0.
Claim_C3_ScoresNeverNegative ==
    result # None =>
        \A i \in DOMAIN Components(result[1]) :
            Components(result[1])[i].score >= 0

\* the call of a check function in the run that has just ended
Called(fn) == \E i \in DOMAIN calls : calls[i].fn = fn

CallOf(fn) == calls[CHOOSE i \in DOMAIN calls : calls[i].fn = fn]

CountMsg(msgs, text) == Cardinality({i \in DOMAIN msgs : msgs[i].text = text})

\* file is an archive built by write_zip from at least one event, with no
\* attachment stored under the name of meta.json or aal.ndjson
WrittenWithEvents(file) ==
    /\ file.zip
    /\ file.entries[2].data.text # <<>>
    /\ \A i \in 3..Len(file.entries) :
           file.entries[i].name \notin {MetaName, AalName}

\* C2 (as stated): every archive written by write_zip, whatever the add_event
\* and add_text_attachment calls before it, verifies as PASS with meta = 4 and
\* aal = 4.
Claim_C2_RoundTripAlwaysPass ==
    result # None =>
        /\ verdict = Some("L1-PASS")
        /\ result[1].meta.score = 4
        /\ result[1].aal.score = 4

\* C2 (amended): an archive written by a builder with the default version
\* "0.1" after at least one add_event call, with no attachment named
\* meta.json or aal.ndjson, verifies as PASS with meta = 4 and aal = 4.
Thm_C2_RoundTripPass ==
    (result # None /\ self.version = VALID_EVB_VERSION
        /\ WrittenWithEvents(disk)) =>
        /\ verdict = Some("L1-PASS")
        /\ exit_code = Some(0)
        /\ result[1].meta.score = 4
        /\ result[1].aal.score = 4

\* a verified archive with two events, one of them with a caller-supplied
\* timestamp that is not ISO-like, and an attachment
Witness_C2_RoundTripPass ==
    /\ result # None
    /\ self.version = VALID_EVB_VERSION
    /\ WrittenWithEvents(disk)
    /\ Len(disk.entries) = 3
    /\ Len(split(disk.entries[2].data.text)) = 3
    /\ result[1].aal.warnings # <<>>
    /\ verdict = Some("L1-PASS")

\* meta.json is present, decodes and parses to a JSON object
MetaIsObject(file) ==
    /\ file.zip
    /\ InNamelist(MetaName, file)
    /\ read(file, MetaName).utf8
    /\ ~loadsRaises(read(file, MetaName).text)
    /\ loads(read(file, MetaName).text).ty = "obj"

MetaOf(file) == loads(read(file, MetaName).text)

MetaLacksRequired(file) ==
    \E i \in DOMAIN REQUIRED_META_FIELDS :
        REQUIRED_META_FIELDS[i] \notin DOMAIN MetaOf(file).f

MissingFieldsText == "meta.json missing required fields"

AalPresent(file) ==
    /\ file.zip
    /\ InNamelist(AalName, file)
    /\ read(file, AalName).utf8

NonBlankLines(file) == SelectSeq(split(read(file, AalName).text), strip)

\* the content holds nothing but newlines and whitespace
OnlyBlank(file) ==
    \A i \in DOMAIN read(file, AalName).text :
        read(file, AalName).text[i] \in {NL, WS}

\* every non-blank line is a JSON object, and there is at least one
AalAllObjects(file) ==
    /\ AalPresent(file)
    /\ NonBlankLines(file) # <<>>
    /\ \A i \in DOMAIN NonBlankLines(file) :
           /\ ~loadsRaises(NonBlankLines(file)[i])
           /\ loads(NonBlankLines(file)[i]).ty = "obj"

\* k: the number of entries that lack a required field
LackingEntries(file) ==
    Cardinality({i \in DOMAIN NonBlankLines(file) :
        \E j \in DOMAIN REQUIRED_AAL_FIELDS :
            REQUIRED_AAL_FIELDS[j] \notin DOMAIN loads(NonBlankLines(file)[i]).f})

Claim_C6_EmptyCostsOne ==
    (Called("verify_aal") /\ AalPresent(disk) /\ OnlyBlank(disk)) =>
        LET c == CallOf("verify_aal")
        IN  /\ ~c.raised
            /\ Len(c.value.warnings) = 1
            /\ c.value.errors = <<>>
            /\ c.value.score = 3

\* C6 (amended): an aal.ndjson with zero non-blank lines is treated as empty,
\* not as malformed JSON: one warning, no error, and it loses exactly 2
\* points (score 2).
Thm_C6_EmptyCostsTwo ==
    (Called("verify_aal") /\ AalPresent(disk) /\ OnlyBlank(disk)) =>
        LET c == CallOf("verify_aal")
        IN  /\ ~c.raised
            /\ c.value.warnings = <<Msg("aal.ndjson is empty", 0)>>
            /\ c.value.errors = <<>>
            /\ c.value.score = 2

\* an aal.ndjson that is not empty but holds only blank lines
Witness_C6_OnlyBlankLines ==
    /\ Called("verify_aal")
    /\ AalPresent(disk)
    /\ OnlyBlank(disk)
    /\ read(disk, AalName).text # <<>>
    /\ result # None
    /\ result[1].aal.score = 2

\* C7: when meta.json is readable and declares bundle_sha256, a declared value
\* equal to the digest of the file gives a hash component with score 2 and no
\* error; a different one gives a hash component with an error, and the
\* verdict is not PASS.
Claim_C7_HashComponent ==
    (result # None /\ MetaIsObject(disk)
        /\ "bundle_sha256" \in DOMAIN MetaOf(disk).f) =>
        LET h == result[1].hash_check
        IN  IF MetaOf(disk).f["bundle_sha256"] = JStr(disk.digest)
            THEN h # <<>> /\ h[1].score = 2 /\ h[1].errors = <<>>
            ELSE /\ h # <<>>
                 /\ h[1].errors # <<>>
                 /\ verdict # Some("L1-PASS")

\* C8: for every archive that opens as a ZIP, all four check functions run
\* and return, and the outcome holds what they returned: no content problem
\* collapses the outcome.
Claim_C8_ContentNeverCollapses ==
    (result # None /\ disk.zip) =>
        /\ Len(calls) = 4
        /\ \A i \in DOMAIN calls : ~calls[i].raised
        /\ result[1] = VerificationResult(calls[1].value, calls[2].value,
                                          calls[3].value, calls[4].value)

\* C9: a run on a path that does not exist, or on a file that is not a ZIP,
\* ends with exit code 2 and no check function called; for a path that does
\* not exist no archive is opened.
Claim_C9_MissingFileFails ==
    (Len(argv) >= 2 /\ (~disk.exists \/ ~disk.zip)) =>
        /\ exit_code = Some(2)
        /\ calls = <<>>
        /\ (~disk.exists => ~opened)

\* C10: write_zip writes an aal.ndjson with one line per add_event call so
\* far, line i being the i-th event; the content ends with a newline iff
\* there is an event and is empty when there is none; add_event appends one
\* entry, and no step reorders, changes or drops an entry.
Thm_C10_AppendOnlyLog ==
    [][/\ write_zip =>
           LET text == disk'.entries[2].data.text
               n == Len(self._events)
           IN  /\ disk'.entries[2].name = AalName
               /\ Len(split(text)) = n + 1
               /\ \A i \in 1..n : split(text)[i] = <<dumps(self._events[i])>>
               /\ split(text)[n + 1] = <<>>
               /\ (n = 0 => text = <<>>)
               /\ (n > 0 => text[Len(text)] = NL)
       /\ Len(self'._events) >= Len(self._events)
       /\ SubSeq(self'._events, 1, Len(self._events)) = self._events
       /\ \A a \in EventArgs :
              add_event(a.actor, a.action, a.timestamp, None, None, a.metadata)
                  => /\ Len(self'._events) = Len(self._events) + 1
                     /\ self'._events[Len(self'._events)].f["actor"]
                            = JStr(a.actor)
                     /\ self'._events[Len(self'._events)].f["action"]
                            = JStr(a.action)]_vars

\* an archive written after the first event, with a second event and an
\* attachment added since
Witness_C10_WrittenBetweenEvents ==
    /\ disk.zip
    /\ Len(self._events) = 2
    /\ split(disk.entries[2].data.text)
           = <<<<dumps(self._events[1])>>, <<>>>>
    /\ self._attachments # <<>>

\* the metadata write_zip wrote as the first entry of the archive
WrittenMeta(file) == loads(file.entries[1].data.text)

\* C11 (as stated): no builder has an empty required identity field
\* (bundle_id, system_name, system_version, operator), and no meta.json
\* written by write_zip has an empty bundle_id or an empty system_info
\* name, version or operator.
Claim_C11_NoEmptyRequiredField ==
    /\ self.bundle_id # <<>>
    /\ self.system_name # <<>>
    /\ self.system_version # <<>>
    /\ self.operator # <<>>
    /\ disk.zip =>
           /\ WrittenMeta(disk).f["bundle_id"] # JStr(<<>>)
           /\ WrittenMeta(disk).f["system_info"].f["name"] # JStr(<<>>)
           /\ WrittenMeta(disk).f["system_info"].f["version"] # JStr(<<>>)
           /\ WrittenMeta(disk).f["system_info"].f["operator"] # JStr(<<>>)

\* C12 (as stated): for any add_event and add_text_attachment calls, with
\* repeated paths and the paths meta.json and aal.ndjson among them, a
\* repeated add replaces the content and keeps the path's place, and
\* write_zip writes exactly one meta.json entry with the metadata, one
\* aal.ndjson entry with the log, then one entry per distinct attachment path
\* in first-insertion order with its last content; no entry name occurs
\* twice, and reading meta.json and aal.ndjson back gives the builder's
\* metadata and log.
Claim_C12_ArchiveLayout ==
    [][/\ write_zip =>
           LET es == disk'.entries
               n == Len(self._attachments)
           IN  /\ Len(es) = 2 + n
               /\ es[1] = ZipEntry(MetaName, Bytes(<<dumps(_build_meta(self))>>))
               /\ es[2] = ZipEntry(AalName, Bytes(aal_ndjson(self._events)))
               /\ \A i \in 1..n :
                      es[2 + i] = ZipEntry(self._attachments[i].path,
                                           Bytes(self._attachments[i].content))
               /\ \A i, j \in DOMAIN es : i # j => es[i].name # es[j].name
               /\ read(disk', MetaName) = es[1].data
               /\ read(disk', AalName) = es[2].data
       /\ \A path \in AttachmentPaths, content \in AttachmentContents :
              add_text_attachment(path, content) =>
                  LET d == self._attachments
                      e == self'._attachments
                  IN  IF \E i \in DOMAIN d : d[i].path = path
                      THEN /\ Len(e) = Len(d)
                           /\ \A i \in DOMAIN d :
                                  /\ e[i].path = d[i].path
                                  /\ e[i].content = IF d[i].path = path
                                                    THEN content
                                                    ELSE d[i].content
                      ELSE e = Append(d, [path |-> path, content |-> content])]_vars

\* C13 (as stated): for every archive verify_bundle reports a total_score in
\* 0..10, the scale the report prints it on ("Score: N/10"), also when the
\* hash component is scored next to full meta, aal and optional scores.
Claim_C13_TotalScoreWithinScale ==
    result # None =>
        /\ total_score(result[1]) \in 0..10
        /\ (result[1].hash_check # None
               /\ result[1].meta.score = 4
               /\ result[1].aal.score = 4
               /\ result[1].optional.score = 2)
              => total_score(result[1]) <= 10

====
